---- MODULE Spec2Model ----
(***************************************************************************)
(* A model of fire/cli/niv/_regn.py: the levelling computation "regn".     *)
(*                                                                         *)
(* Danish letters are transliterated in names: ae, oe, aa.                 *)
(*                                                                         *)
(* Numbers.  A spreadsheet cell or list element holding a number is a      *)
(* tuple: <<>> is the missing value (None in a list, NaN/NaT once it has   *)
(* been through a DataFrame), <<v>> is the number v.  Heights are counted  *)
(* in units of 10^-7 m, so that <<5>> is half a micrometre; a Delta is     *)
(* counted in units of 10^-7 mm.  Timestamps are seconds.  A quotient the  *)
(* code computes with "/" is kept exact as the tuple of its operands.      *)
(***************************************************************************)
EXTENDS Integers, Sequences, FiniteSets, TLC

VARIABLES
    \* --- the project on disk ---
    ark,            \* the project's spreadsheet: sheet name -> rows, or NoSheet
    resultatfil,    \* <projektnavn>-resultat.xml: NoFile or what gama-local wrote
    gamafil,        \* <projektnavn>.xml: NoFile or what skriv_gama_inputfil wrote
    koersler,       \* number of regn invocations started so far
    \* --- one invocation of regn ---
    pc,             \* position of the running regn, "idle" between invocations
    kontrol,        \* regn's local: TRUE in a control computation
    arbejdssaet,    \* regn's local: the Arbejdssaet dataclass (record of columns)
    observationer,  \* regn's local: the Observationer rows
    fastholdte,     \* regn's local: the dict find_fastholdte returned (a set of pairs)
    gama,           \* (punkter, koter, varianser, tg) returned by laes_gama_output
    j,              \* opdater_arbejdssaet's loop index (1-based)
    udfald,         \* how the last invocation ended
    ret,            \* what the gama-local subprocess of this invocation did
    foer,           \* the working set as it was handed to opdater_arbejdssaet
    \* --- spredning applied to drawn arguments ---
    spr_arg, spr_res

regn_vars == <<ark, resultatfil, gamafil, koersler, pc, kontrol, arbejdssaet,
               observationer, fastholdte, gama, j, udfald, ret, foer>>
spr_vars == <<spr_arg, spr_res>>
vars == <<regn_vars, spr_vars>>

----------------------------------------------------------------------------
(* Missing values and exact arithmetic *)

NaN == <<>>
Tal(v) == <<v>>

\* a - b of two cells; NaN propagates
Minus(a, b) == IF a = NaN \/ b = NaN THEN NaN ELSE Tal(a[1] - b[1])

Abs(n) == IF n < 0 THEN -n ELSE n

\* math.sqrt on a perfect square
Sqrt(v) == CHOOSE r \in 0..v : r * r = v

----------------------------------------------------------------------------
(* spredning: a-priori standard deviation of one observation *)

\* afstand_i_m / 1000
MeterPrKm == 1000

\* str.upper on the type codes that occur
Upper(s) ==
    CASE s = "nul" -> "NUL"
      [] s = "mtl" -> "MTL"
      [] s = "mgl" -> "MGL"
      [] s = "Mtl" -> "MTL"
      [] s = "xyz" -> "XYZ"
      [] OTHER -> s

ValueError(besked) == [udfald |-> "ValueError", besked |-> besked]

\* A returned value is the non-negative root of taeller/naevner (mm^2).
Retur(taeller, naevner) == [udfald |-> "retur", taeller |-> taeller, naevner |-> naevner]

spredning(observationstype, afstand_i_m, antal_opstillinger, afstandsafhaengig_spredning_i_mm, centreringsspredning_i_mm) ==
    \* if "NUL" == observationstype.upper(): return 0
    IF Upper(observationstype) = "NUL" THEN Retur(0, 1)
    \* opstillingsafhaengig = sqrt(antal_opstillinger * centreringsspredning_i_mm**2)
    ELSE IF antal_opstillinger * (centreringsspredning_i_mm * centreringsspredning_i_mm) < 0
         THEN ValueError("math domain error")
    \* MTL: hypot(a * L / 1000, opstillingsafhaengig); no root is taken of L
    ELSE IF Upper(observationstype) = "MTL" THEN
        Retur((afstandsafhaengig_spredning_i_mm * afstand_i_m)
                 * (afstandsafhaengig_spredning_i_mm * afstand_i_m)
              + antal_opstillinger * centreringsspredning_i_mm * centreringsspredning_i_mm
                 * (MeterPrKm * MeterPrKm),
              MeterPrKm * MeterPrKm)
    \* MGL: hypot(a * sqrt(L / 1000), opstillingsafhaengig)
    ELSE IF Upper(observationstype) = "MGL" THEN
        IF afstand_i_m < 0 THEN ValueError("math domain error")
        ELSE Retur(afstandsafhaengig_spredning_i_mm * afstandsafhaengig_spredning_i_mm
                     * afstand_i_m
                   + antal_opstillinger * centreringsspredning_i_mm
                     * centreringsspredning_i_mm * MeterPrKm,
                   MeterPrKm)
    ELSE ValueError("Ukendt observationstype")

----------------------------------------------------------------------------
(* The Arbejdssaet dataclass: fourteen parallel lists *)

Kolonner == {"punkt", "fasthold", "hvornaar", "kote", "sigma", "ny_kote", "ny_sigma",
             "Delta_kote", "oploeft", "system", "nord", "oest", "uuid", "udelad"}

\* arb_til_dataklasse: one list per column of the sheet
arb_til_dataklasse(arb) == [c \in Kolonner |-> [k \in 1..Len(arb) |-> arb[k][c]]]

Min(S) == CHOOSE m \in S : \A n \in S : m <= n

\* list(zip(*vaerdier)): rows up to the length of the shortest column
zip_kolonner(arbejdssaet_) ==
    [k \in 1..Min({Len(arbejdssaet_[c]) : c \in Kolonner}) |->
        [c \in Kolonner |-> arbejdssaet_[c][k]]]

----------------------------------------------------------------------------
(* find_fastholdte *)

\* Python's == between a list and a str: never equal
ListeLigStreng(liste, streng) == FALSE

\* A bool used as a list index is 0 or 1; lists here are 1-based
BoolIndeks(b) == IF b THEN 2 ELSE 1

find_fastholdte(arbejdssaet_, kontrol_) ==
    LET relevante == IF kontrol_ THEN ListeLigStreng(arbejdssaet_.fasthold, "x")
                     ELSE ~ListeLigStreng(arbejdssaet_.fasthold, "")
        i == BoolIndeks(relevante)
    IN  IF i > Len(arbejdssaet_.punkt) \/ i > Len(arbejdssaet_.kote)
        THEN [udfald |-> "IndexError", dict |-> <<>>]
        \* dict(zip((punkt[i],), (kote[i],)))
        ELSE [udfald |-> "retur",
              dict |-> [p \in {arbejdssaet_.punkt[i]} |-> arbejdssaet_.kote[i]]]

----------------------------------------------------------------------------
(* opdater_arbejdssaet: one iteration of its loop *)

\* (ny_kote - kote) * 1000.0
MmPrMeter == 1000
\* 0.001 mm, in the unit a Delta is counted in (10^-7 mm)
Mikrometer == 10000
\* 365.25 * 86400
SekunderPrAar == 31557600

Gange(a, n) == IF a = NaN THEN NaN ELSE Tal(a[1] * n)

\* a / (b / SekunderPrAar), exact: the operands are kept
Kvotient(a, b) == IF a = NaN \/ b = NaN THEN NaN ELSE <<a[1], b[1], SekunderPrAar>>

\* list.index: the first position holding punkt
Indeks(liste, punkt) ==
    CHOOSE k \in 1..Len(liste) : liste[k] = punkt /\ \A m \in 1..(k - 1) : liste[m] # punkt

\* lines 409-412: what is put aside before an existing point is overwritten
GemInfo(arb, i) ==
    [arb EXCEPT !.punkt = Append(@, arb.punkt[i]),
                !.ny_sigma = Append(@, arb.ny_sigma[i]),
                !.hvornaar = Append(@, arb.hvornaar[i]),
                !.system = Append(@, "DVR90")]

\* lines 419-422: the change in millimetres, changes below a micrometre ignored
DeltaMm(ny_kote, kote) ==
    LET Delta == Gange(Minus(Tal(ny_kote), kote), MmPrMeter)
    IN  IF Delta # NaN /\ Abs(Delta[1]) < Mikrometer THEN Tal(0) ELSE Delta

\* The update without its "if dt == 0: continue"
Tidsopdatering_uden_continue(arb, i, Delta, dt, tg) ==
    [arb EXCEPT !.oploeft[i] = Kvotient(Delta, dt),
                !.hvornaar[i] = Tal(tg),
                !.system[i] = "DVR90"]

\* lines 427-431: dt == 0 skips the rest of the iteration
Tidsopdatering(arb, i, Delta, dt, tg) ==
    IF dt = Tal(0) THEN arb
    ELSE [arb EXCEPT !.oploeft[i] = Kvotient(Delta, dt),
                     !.hvornaar[i] = Tal(tg),
                     !.system[i] = "DVR90"]

\* lines 414-431: overwrite row i with the new height
Overskriv(arb, i, punkt, ny_kote, var, tg) ==
    LET Delta == DeltaMm(ny_kote, arb.kote[i])
        dt == Minus(Tal(tg), arb.hvornaar[i])
        arb1 == [arb EXCEPT !.punkt[i] = punkt,
                            !.ny_kote[i] = Tal(ny_kote),
                            !.ny_sigma[i] = Tal(Sqrt(var)),
                            !.Delta_kote[i] = Delta]
    IN  Tidsopdatering(arb1, i, Delta, dt, tg)

\* lines 434-449: a point the working set does not hold
TilfoejNyt(arb, punkt, ny_kote, var, tg) ==
    [arb EXCEPT !.punkt = Append(@, punkt),
                !.ny_sigma = Append(@, Tal(Sqrt(var))),
                !.hvornaar = Append(@, Tal(tg)),
                !.ny_kote = Append(@, Tal(ny_kote)),
                !.system = Append(@, "DVR90"),
                !.fasthold = Append(@, ""),
                !.kote = Append(@, NaN),
                !.sigma = Append(@, NaN),
                !.Delta_kote = Append(@, NaN),
                !.oploeft = Append(@, NaN),
                !.oest = Append(@, NaN),
                !.nord = Append(@, NaN),
                !.uuid = Append(@, NaN),
                !.udelad = Append(@, "")]

Findes(arb, punkt) == \E k \in 1..Len(arb.punkt) : arb.punkt[k] = punkt

\* An assignment to liste[i] past the end of a list raises IndexError
UdenforListe(arb, i) ==
    \E c \in {"ny_kote", "ny_sigma", "kote", "Delta_kote", "hvornaar", "oploeft", "system"} :
        i > Len(arb[c])

\* The body of the loop for the j-th triple (punkt, ny_kote, var)
opdater_trin(arb, jj, punkt, ny_kote, var, tg) ==
    IF Findes(arb, punkt)
    THEN LET i == Indeks(arb.punkt, punkt)
             arb1 == IF i > jj THEN GemInfo(arb, i) ELSE arb
         IN  IF UdenforListe(arb1, i)
             THEN [udfald |-> "IndexError", arb |-> arb1]
             ELSE [udfald |-> "retur", arb |-> Overskriv(arb1, i, punkt, ny_kote, var, tg)]
    ELSE [udfald |-> "retur", arb |-> TilfoejNyt(arb, punkt, ny_kote, var, tg)]

----------------------------------------------------------------------------
(* skriv_gama_inputfil *)

\* One <dh .../> element.  val and dist are exact at the digits written (delta_H
\* is counted in micrometres, L in metres); stdev is carried as spredning's result.
DhLinje(o, stdev) ==
    [from |-> o.fra, to |-> o.til, val |-> o.delta_H, dist |-> o.L,
     stdev |-> stdev, extern |-> o.journal]

\* The loop without its "if sluk == 'x': continue"
RECURSIVE dh_linjer_uden_sluk(_)
dh_linjer_uden_sluk(obs) ==
    IF obs = <<>> THEN [udfald |-> "retur", dh |-> <<>>]
    ELSE LET o == Head(obs)
             stdev == spredning(o.type, o.L, o.opst, o.sigma, o.delta)
         IN  IF stdev.udfald # "retur"
             THEN [udfald |-> "ValueError", dh |-> <<>>]
             ELSE LET rest == dh_linjer_uden_sluk(Tail(obs))
                  IN  [udfald |-> rest.udfald,
                       dh |-> <<DhLinje(o, stdev)>> \o rest.dh]

\* lines 306-325: the loop over the observations.  A ValueError out of spredning
\* leaves the lines written so far in the file.
RECURSIVE dh_linjer(_)
dh_linjer(obs) ==
    IF obs = <<>> THEN [udfald |-> "retur", dh |-> <<>>]
    ELSE LET o == Head(obs)
         IN  IF o.sluk = "x" THEN dh_linjer(Tail(obs))
             ELSE LET stdev == spredning(o.type, o.L, o.opst, o.sigma, o.delta)
                  IN  IF stdev.udfald # "retur"
                      THEN [udfald |-> "ValueError", dh |-> <<>>]
                      ELSE LET rest == dh_linjer(Tail(obs))
                           IN  [udfald |-> rest.udfald,
                                dh |-> <<DhLinje(o, stdev)>> \o rest.dh]

\* sorted(...) of a set of point ids
RECURSIVE Sorteret(_)
Sorteret(S) == IF S = {} THEN <<>> ELSE <<Min(S)>> \o Sorteret(S \ {Min(S)})

\* The file <projektnavn>.xml after the call; afsluttet is FALSE when the
\* postamble was never written.
skriv_gama_inputfil(fastholdte_, estimerede_punkter, observationer_) ==
    LET linjer == dh_linjer(observationer_)
    IN  [udfald |-> linjer.udfald,
         fil |-> [fix |-> fastholdte_, adj |-> estimerede_punkter,
                  dh |-> linjer.dh, afsluttet |-> linjer.udfald = "retur"]]

\* netanalyse (fire/cli/niv/_netoversigt.py): the points the observations that
\* are not switched off connect
netanalyse(observationer_) ==
    {observationer_[k].fra : k \in {m \in 1..Len(observationer_) : observationer_[m].sluk # "x"}}
    \cup {observationer_[k].til : k \in {m \in 1..Len(observationer_) : observationer_[m].sluk # "x"}}

----------------------------------------------------------------------------
(* laes_gama_output *)

\* gyldighedstidspunkt (fire/cli/niv/__init__.py): the project's validity time
gyldighedstidspunkt == SekunderPrAar

\* The reader without its assert
laes_gama_output_uden_assert(indhold) ==
    IF Len(indhold.punkter) < 2 \/ Len(indhold.varianser) < 2
    THEN [udfald |-> "TypeError"]
    ELSE [udfald |-> "retur", punkter |-> indhold.punkter, koter |-> indhold.koter,
          varianser |-> indhold.varianser, tg |-> gyldighedstidspunkt]

\* xmltodict gives a list only for an element that occurs two or more times:
\* a single <point>, or a single <flt>, comes back as a dict or a str, and the
\* comprehensions of lines 386-388 fail on it; none at all comes back as None.
laes_gama_output(indhold) ==
    IF Len(indhold.punkter) < 2 \/ Len(indhold.varianser) < 2
    THEN [udfald |-> "TypeError"]
    \* assert len(koter) == len(varianser)
    ELSE IF Len(indhold.koter) # Len(indhold.varianser)
    THEN [udfald |-> "AssertionError"]
    ELSE [udfald |-> "retur", punkter |-> indhold.punkter, koter |-> indhold.koter,
          varianser |-> indhold.varianser, tg |-> gyldighedstidspunkt]

----------------------------------------------------------------------------
(* gama_udjaevn *)

NoFile == <<>>

\* lines 354-366: TRUE when the call ends in SystemExit(1)
gama_udjaevn_fejler(returncode, resultatfil_) ==
    returncode # 0 /\ resultatfil_ = NoFile

----------------------------------------------------------------------------
(* regn *)

NoSheet == <<>>
Faneblade == {"Punktoversigt", "Observationer", "Kontrolberegning",
              "Endelig beregning", "Netgeometri"}

\* find_faneblad (fire/cli/niv/__init__.py): the sheet's rows
find_faneblad(ark_, navn) == ark_[navn][1]

\* lines 87-90
er_kontrol(ark_) == ark_["Kontrolberegning"] = NoSheet

\* The progression with its else branch left out
naeste_faneblad_uden_else(kontrol_) == "Kontrolberegning"

\* lines 93-100
aktuelt_faneblad(kontrol_) == IF kontrol_ THEN "Punktoversigt" ELSE "Kontrolberegning"
naeste_faneblad(kontrol_) == IF kontrol_ THEN "Kontrolberegning" ELSE "Endelig beregning"

\* lines 108-109: arbejdssaet["Hvornaar"] = punktoversigt["Hvornaar"], which pandas
\* aligns on the row index: a row Punktoversigt does not have gets NaT
OprindeligeDatoer(arb, punktoversigt) ==
    [k \in 1..Len(arb) |->
        [arb[k] EXCEPT !.hvornaar =
            IF k <= Len(punktoversigt) THEN punktoversigt[k].hvornaar ELSE NaN]]

\* lines 103-115: the working set regn computes on
indlaes_arbejdssaet(ark_, kontrol_) ==
    LET arb == find_faneblad(ark_, aktuelt_faneblad(kontrol_))
    IN  arb_til_dataklasse(
            IF kontrol_ THEN arb
            ELSE OprindeligeDatoer(arb, find_faneblad(ark_, "Punktoversigt")))

\* skriv_ark (fire/cli/niv/__init__.py): every sheet of resultater replaces the
\* sheet of its name; the other sheets stay
skriv_ark(ark_, resultater) ==
    [n \in Faneblade |-> IF n \in DOMAIN resultater THEN <<resultater[n]>> ELSE ark_[n]]

----------------------------------------------------------------------------
(* Bounds and the values the inputs are drawn from *)

MaxKoersler == 2      \* invocations of regn on the project
MaxRaekker == 2       \* rows of a working set before a computation
MaxUd == 2            \* points in one gama-local result
MaxObs == 2           \* rows of the Observationer sheet

Punkter == {1, 2, 3}
Flag == {"", "x", "e"}
Tidspunkter == {0, SekunderPrAar}
Systemer == {"DVR90", "Jessen"}
KoterUd == {100, 105, 110}
Typer == {"MTL", "mgl", "NUL", "xyz"}
Afstande == {-500, 500}

\* A row of an overview sheet for point p, as laes_observationer leaves it:
\* nothing computed yet
Raekke(p, f, t, sys) ==
    [punkt |-> p, fasthold |-> f, hvornaar |-> Tal(t), kote |-> Tal(100 * p),
     sigma |-> Tal(1), ny_kote |-> NaN, ny_sigma |-> NaN, Delta_kote |-> NaN,
     oploeft |-> NaN, system |-> sys, nord |-> Tal(p), oest |-> Tal(p),
     uuid |-> Tal(p), udelad |-> ""]

\* Sequences of up to n elements of S
Lister(S, n) == UNION {[1..m -> S] : m \in 0..n}
Forskellige(l) == \A a, b \in 1..Len(l) : a # b => l[a] # l[b]

Observation(k, sluk, type, L) ==
    [journal |-> k, sluk |-> sluk, fra |-> 1, til |-> 2, delta_H |-> 1500000,
     L |-> L, opst |-> 3, sigma |-> 2, delta |-> 1, type |-> type]

\* Observationer sheets of up to n rows
ObsLister(n, slukkede, typer, afstande) ==
    {[k \in 1..Len(l) |-> Observation(k, l[k][1], l[k][2], l[k][3])] :
        l \in Lister(slukkede \X typer \X afstande, n)}

\* What gama-local can write: the adjusted points (each once), a height for
\* each, and the diagonal of the covariance matrix, m values
GamaResultat(ps, kote, m) ==
    [punkter |-> ps, koter |-> [k \in 1..Len(ps) |-> kote],
     varianser |-> [k \in 1..m |-> 4]]

TomtArbejdssaet == [c \in Kolonner |-> <<>>]
IngenGama == [punkter |-> <<>>, koter |-> <<>>, varianser |-> <<>>, tg |-> 0]
IngenRet == [returncode |-> 0, skrev |-> FALSE]
IngenSpr == [udfald |-> "ingen"]

\* regn's locals once it has returned
Nulstillet ==
    /\ kontrol' = FALSE
    /\ arbejdssaet' = TomtArbejdssaet
    /\ observationer' = <<>>
    /\ fastholdte' = <<>>
    /\ gama' = IngenGama
    /\ j' = 0
    /\ ret' = IngenRet
    /\ foer' = TomtArbejdssaet

\* regn ends: by an exception (SystemExit included) or by returning
Slut(hvordan) == pc' = "idle" /\ udfald' = hvordan /\ Nulstillet

----------------------------------------------------------------------------
(* The steps of one invocation of regn *)

\* lines 81-121: choose the phase, read the sheets, find the fixed points
RegnStart ==
    /\ pc = "idle"
    /\ koersler < MaxKoersler
    /\ koersler' = koersler + 1
    /\ LET k == er_kontrol(ark)
           arb == indlaes_arbejdssaet(ark, k)
           f == find_fastholdte(arb, k)
       IN  IF f.udfald # "retur" THEN Slut(f.udfald)
           ELSE IF Cardinality(DOMAIN f.dict) = 0 THEN Slut("SystemExit")
           ELSE /\ pc' = "fastholdt"
                /\ kontrol' = k
                /\ arbejdssaet' = arb
                /\ observationer' = find_faneblad(ark, "Observationer")
                /\ fastholdte' = f.dict
                /\ udfald' = "i gang"
                /\ UNCHANGED <<gama, j, ret, foer>>
    /\ UNCHANGED <<ark, resultatfil, gamafil, spr_vars>>

\* lines 123-134: the net analysis and the gama input file
RegnSkrivInput ==
    /\ pc = "fastholdt"
    /\ LET forbundne_punkter == netanalyse(observationer)
           estimerede_punkter == Sorteret(forbundne_punkter \ DOMAIN fastholdte)
           skrevet == skriv_gama_inputfil(fastholdte, estimerede_punkter, observationer)
       IN  /\ gamafil' = <<skrevet.fil>>
           /\ IF skrevet.udfald # "retur" THEN Slut(skrevet.udfald)
              ELSE /\ pc' = "skrevet"
                   /\ UNCHANGED <<kontrol, arbejdssaet, observationer, fastholdte,
                                  gama, j, udfald, ret, foer>>
    /\ UNCHANGED <<ark, resultatfil, koersler, spr_vars>>

\* lines 136-137: gama-local runs; it exits with returncode and has, or has not,
\* written its result file
RegnUdjaevn ==
    /\ pc = "skrevet"
    /\ \E returncode \in {0, 1}, skrev \in BOOLEAN,
          ps \in Lister(Punkter, MaxUd), ekstra \in {0, 1} :
        /\ Forskellige(ps)
        /\ returncode = 0 => skrev
        /\ ~skrev => ps = <<>> /\ ekstra = 0
        /\ resultatfil' = IF skrev THEN <<GamaResultat(ps, 105, Len(ps) + ekstra)>>
                          ELSE resultatfil
        /\ IF gama_udjaevn_fejler(returncode, resultatfil') THEN Slut("SystemExit")
           ELSE /\ pc' = "udjaevnet"
                /\ ret' = [returncode |-> returncode, skrev |-> skrev]
                /\ UNCHANGED <<kontrol, arbejdssaet, observationer, fastholdte,
                               gama, j, udfald, foer>>
    /\ UNCHANGED <<ark, gamafil, koersler, spr_vars>>

\* line 140
RegnLaes ==
    /\ pc = "udjaevnet"
    /\ LET laest == laes_gama_output(resultatfil[1])
       IN  IF laest.udfald # "retur" THEN Slut(laest.udfald)
           ELSE /\ pc' = "opdater"
                /\ gama' = [punkter |-> laest.punkter, koter |-> laest.koter,
                            varianser |-> laest.varianser, tg |-> laest.tg]
                /\ j' = 1
                /\ foer' = arbejdssaet
                /\ UNCHANGED <<kontrol, arbejdssaet, observationer, fastholdte,
                               udfald, ret>>
    /\ UNCHANGED <<ark, resultatfil, gamafil, koersler, spr_vars>>

\* zip(punkter, koter, varianser) stops at the shortest
AntalTripler == Min({Len(gama.punkter), Len(gama.koter), Len(gama.varianser)})

\* line 143, one iteration of the loop of opdater_arbejdssaet
OpdaterTrin ==
    /\ pc = "opdater"
    /\ j <= AntalTripler
    /\ LET trin == opdater_trin(arbejdssaet, j, gama.punkter[j], gama.koter[j],
                                gama.varianser[j], gama.tg)
       IN  IF trin.udfald # "retur" THEN Slut(trin.udfald)
           ELSE /\ arbejdssaet' = trin.arb
                /\ j' = j + 1
                /\ UNCHANGED <<pc, kontrol, observationer, fastholdte, gama, udfald, ret,
                               foer>>
    /\ UNCHANGED <<ark, resultatfil, gamafil, koersler, spr_vars>>

\* lines 144-162: the rows of the result, and the sheets written
RegnAfslut ==
    /\ pc = "opdater"
    /\ j > AntalTripler
    /\ LET beregning == zip_kolonner(arbejdssaet)
           resultater == [n \in {"Netgeometri", naeste_faneblad(kontrol)} |->
                            IF n = "Netgeometri"
                            THEN Sorteret(netanalyse(observationer))
                            ELSE beregning]
       IN  ark' = skriv_ark(ark, resultater)
    /\ Slut("faerdig")
    /\ UNCHANGED <<resultatfil, gamafil, koersler, spr_vars>>

----------------------------------------------------------------------------
(* Spec: a project, and regn invoked on it up to MaxKoersler times *)

\* No project, no invocation, no call: the part of the state a specification
\* does not use
IngenRegn ==
    /\ ark = [a \in Faneblade |-> NoSheet]
    /\ resultatfil = NoFile
    /\ koersler = 0
    /\ udfald = "i gang"
    /\ ret = IngenRet
IngenSpredning == spr_arg = <<>> /\ spr_res = IngenSpr

Init ==
    /\ \E n \in 1..MaxRaekker :
       \E f \in [1..n -> Flag], obs \in ObsLister(1, {""}, {"MTL", "xyz"}, {500}) :
            ark = [a \in Faneblade |->
                     CASE a = "Punktoversigt" ->
                            <<[k \in 1..n |-> Raekke(k, f[k], 0, "Jessen")]>>
                       [] a = "Observationer" -> <<obs>>
                       [] OTHER -> NoSheet]
    /\ resultatfil = NoFile
    /\ gamafil = NoFile
    /\ koersler = 0
    /\ pc = "idle"
    /\ kontrol = FALSE
    /\ arbejdssaet = TomtArbejdssaet
    /\ observationer = <<>>
    /\ fastholdte = <<>>
    /\ gama = IngenGama
    /\ j = 0
    /\ udfald = "ingen"
    /\ ret = IngenRet
    /\ foer = TomtArbejdssaet
    /\ IngenSpredning

Next ==
    \/ RegnStart
    \/ RegnSkrivInput
    \/ RegnUdjaevn
    \/ RegnLaes
    \/ OpdaterTrin
    \/ RegnAfslut

Spec == Init /\ [][Next]_vars

----------------------------------------------------------------------------
(* SpecOpdater: opdater_arbejdssaet on any working set and any solver result *)

InitOpdater ==
    /\ IngenRegn
    /\ IngenSpredning
    /\ gamafil = NoFile
    /\ pc = "opdater"
    /\ kontrol = TRUE
    /\ observationer = <<>>
    /\ fastholdte = <<>>
    /\ j = 1
    /\ \E arb \in Lister({Raekke(p, "", t, sys) :
                              p \in Punkter, t \in Tidspunkter, sys \in Systemer},
                           MaxRaekker) :
          /\ arbejdssaet = arb_til_dataklasse(arb)
          /\ foer = arbejdssaet
    /\ \E ps \in Lister(Punkter, MaxUd), kote \in KoterUd, tg \in Tidspunkter :
          /\ Forskellige(ps)
          /\ gama = [GamaResultat(ps, kote, Len(ps)) EXCEPT !.punkter = ps] @@ [tg |-> tg]

NextOpdater == OpdaterTrin

SpecOpdater == InitOpdater /\ [][NextOpdater]_vars

----------------------------------------------------------------------------
(* SpecSkriv: skriv_gama_inputfil on any Observationer sheet *)

InitSkriv ==
    /\ IngenRegn
    /\ IngenSpredning
    /\ gamafil = NoFile
    /\ pc = "fastholdt"
    /\ kontrol = TRUE
    /\ arbejdssaet = arb_til_dataklasse(<<Raekke(1, "x", 0, "DVR90")>>)
    /\ fastholdte = [p \in {1} |-> Tal(100)]
    /\ gama = IngenGama
    /\ j = 0
    /\ foer = TomtArbejdssaet
    /\ observationer \in ObsLister(MaxObs, {"", "x"}, Typer, Afstande)

NextSkriv == RegnSkrivInput

SpecSkriv == InitSkriv /\ [][NextSkriv]_vars

----------------------------------------------------------------------------
(* SpecSpredning: spredning on any arguments *)

SprTyper == {"NUL", "nul", "MTL", "mtl", "Mtl", "MGL", "mgl", "xyz", ""}

InitSpredning ==
    /\ IngenRegn
    /\ gamafil = NoFile
    /\ pc = "idle"
    /\ kontrol = FALSE
    /\ arbejdssaet = TomtArbejdssaet
    /\ observationer = <<>>
    /\ fastholdte = <<>>
    /\ gama = IngenGama
    /\ j = 0
    /\ foer = TomtArbejdssaet
    /\ spr_res = IngenSpr
    /\ spr_arg \in [observationstype : SprTyper, afstand_i_m : {-1, 0, 500},
                     antal_opstillinger : {-1, 0, 3},
                     afstandsafhaengig_spredning_i_mm : {-2, 2},
                     centreringsspredning_i_mm : {0, 1}]

SpredningKald ==
    /\ spr_res = IngenSpr
    /\ spr_res' = spredning(spr_arg.observationstype, spr_arg.afstand_i_m,
                            spr_arg.antal_opstillinger,
                            spr_arg.afstandsafhaengig_spredning_i_mm,
                            spr_arg.centreringsspredning_i_mm)
    /\ UNCHANGED <<regn_vars, spr_arg>>

NextSpredning == SpredningKald

SpecSpredning == InitSpredning /\ [][NextSpredning]_vars

----------------------------------------------------------------------------
(* Claims *)

Afbrudt == {"SystemExit", "IndexError", "ValueError", "TypeError", "AssertionError"}

\* A dict as the set of its (key, value) pairs
Par(d) == {<<p, d[p]>> : p \in DOMAIN d}

\* The rows the phase holds fixed: flag "x" in a control computation, any
\* flag that is not empty in a final one
Flagede(arb, kontrol_) ==
    {k \in 1..Len(arb.fasthold) :
        IF kontrol_ THEN arb.fasthold[k] = "x" ELSE arb.fasthold[k] # ""}

\* C1: once find_fastholdte has returned for a working set that is not empty,
\* the dict it returned holds exactly the flagged rows' points, each with that
\* row's Kote.
C1_fastholdte_er_de_flagede ==
    (pc = "fastholdt" /\ Len(arbejdssaet.punkt) > 0) =>
        Par(fastholdte) =
            {<<arbejdssaet.punkt[k], arbejdssaet.kote[k]>> : k \in Flagede(arbejdssaet, kontrol)}

\* C2: with every Fasthold cell empty regn never gets as far as writing the
\* gama input or running gama-local.
C2_ingen_fastholdte_standser ==
    (\A k \in 1..Len(arbejdssaet.fasthold) : arbejdssaet.fasthold[k] = "") =>
        pc \notin {"skrevet", "udjaevnet", "opdater"}

\* The journal numbers of the <dh> elements of a gama input file
Eksterne(fil) == [k \in 1..Len(fil.dh) |-> fil.dh[k].extern]

TaendtJournal(obs) ==
    LET taendte == SelectSeq(obs, LAMBDA o : o.sluk # "x")
    IN  [k \in 1..Len(taendte) |-> taendte[k].journal]

\* TRUE when spredning raises on observation o
Afvises(o) == spredning(o.type, o.L, o.opst, o.sigma, o.delta).udfald # "retur"

\* The observations before the first one that is switched on and rejected
FoerFoersteAfviste(obs) ==
    LET afviste == {k \in 1..Len(obs) : obs[k].sluk # "x" /\ Afvises(obs[k])}
    IN  IF afviste = {} THEN obs ELSE SubSeq(obs, 1, Min(afviste) - 1)

\* C3 as claimed: whatever the Observationer sheet holds, the file
\* skriv_gama_inputfil leaves has one <dh> for every observation whose Sluk is
\* not set, in the order of the sheet, and none for the others.
C3_en_dh_for_hver_taendt ==
    [][pc = "fastholdt" => Eksterne(gamafil'[1]) = TaendtJournal(observationer)]_vars

\* C3 amended: the <dh> elements are, in order, the observations whose Sluk is
\* not set up to the first of them that spredning rejects; the call returns,
\* with the file complete, exactly when spredning rejects none of them.
C3_dh_indtil_foerste_afviste ==
    [][pc = "fastholdt" =>
        /\ Eksterne(gamafil'[1]) = TaendtJournal(FoerFoersteAfviste(observationer))
        /\ (pc' = "skrevet") = (FoerFoersteAfviste(observationer) = observationer)
        /\ gamafil'[1].afsluttet = (pc' = "skrevet")]_vars

\* A sheet with a switched-off observation ahead of one that was written
C3_witness ==
    /\ pc = "skrevet"
    /\ Len(observationer) = 2
    /\ observationer[1].sluk = "x"
    /\ Eksterne(gamafil[1]) = <<2>>

\* C4: regn gets past gama_udjaevn only if gama-local exited with 0 or this
\* invocation's gama-local wrote a result file.
C4_haard_fejl_standser ==
    pc = "opdater" => ~(ret.returncode # 0 /\ ~ret.skrev)

\* A step in which an invocation of regn ends
KoerselSlutter == pc' = "idle" /\ (pc # "idle" \/ koersler' # koersler)

Raekker(arb) == zip_kolonner(arb)

\* The row the loop is to append for a point the working set did not hold
NyRaekke(punkt, ny_kote, var, tg) ==
    [punkt |-> punkt, fasthold |-> "", hvornaar |-> Tal(tg), kote |-> NaN,
     sigma |-> NaN, ny_kote |-> Tal(ny_kote), ny_sigma |-> Tal(Sqrt(var)),
     Delta_kote |-> NaN, oploeft |-> NaN, system |-> "DVR90", nord |-> NaN,
     oest |-> NaN, uuid |-> NaN, udelad |-> ""]

OpdateringFaerdig == pc = "opdater" /\ j > AntalTripler

\* C6: when the loop has run over the solver's triples, every point of the
\* solver's output has a row with its id, the solver's height as Ny kote and
\* the root of its variance as Ny sigma; a point the working set did not hold
\* has the appended row, all other cells blank.
C6_hvert_punkt_har_sin_raekke ==
    OpdateringFaerdig =>
        \A k \in 1..Len(gama.punkter) :
            \E r \in 1..Len(Raekker(arbejdssaet)) :
                LET raekke == Raekker(arbejdssaet)[r]
                IN  /\ raekke.punkt = gama.punkter[k]
                    /\ raekke.ny_kote = Tal(gama.koter[k])
                    /\ raekke.ny_sigma = Tal(Sqrt(gama.varianser[k]))
                    /\ ~Findes(foer, gama.punkter[k]) =>
                          raekke = NyRaekke(gama.punkter[k], gama.koter[k],
                                            gama.varianser[k], gama.tg)

\* An iteration that finds its point in the working set
TrinPaaKendt ==
    /\ pc = "opdater" /\ pc' = "opdater"
    /\ j <= AntalTripler /\ j' = j + 1
    /\ Findes(arbejdssaet, gama.punkter[j])

\* C7: an iteration that finds its point at an index past its own leaves a row
\* equal, cell for cell, to the row it then overwrites.
C7_kopi_foer_overskrivning ==
    [][(TrinPaaKendt /\ Indeks(arbejdssaet.punkt, gama.punkter[j]) > j) =>
        \E r \in 1..Len(Raekker(arbejdssaet')) :
            Raekker(arbejdssaet')[r] =
                Raekker(arbejdssaet)[Indeks(arbejdssaet.punkt, gama.punkter[j])]]_vars

\* C8: an iteration on a point the working set holds sets Ny kote, Ny sigma and
\* the Delta from the triple; if the row's Hvornaar equals tg, its Oploeft,
\* Hvornaar and System stay as they were, and otherwise Hvornaar becomes tg,
\* System DVR90 and Oploeft the Delta over the years elapsed.
C8_nul_tid_roerer_ikke_oploeft ==
    [][TrinPaaKendt =>
        LET i == Indeks(arbejdssaet.punkt, gama.punkter[j])
            mm == (gama.koter[j] - arbejdssaet.kote[i][1]) * 1000
            Delta == IF -10000 < mm /\ mm < 10000 THEN 0 ELSE mm
            sekunder == gama.tg - arbejdssaet.hvornaar[i][1]
        IN  /\ arbejdssaet'.ny_kote[i] = <<gama.koter[j]>>
            /\ arbejdssaet'.ny_sigma[i] = <<Sqrt(gama.varianser[j])>>
            /\ arbejdssaet'.Delta_kote[i] = <<Delta>>
            /\ IF arbejdssaet.hvornaar[i] = <<gama.tg>>
               THEN /\ arbejdssaet'.oploeft[i] = arbejdssaet.oploeft[i]
                    /\ arbejdssaet'.hvornaar[i] = arbejdssaet.hvornaar[i]
                    /\ arbejdssaet'.system[i] = arbejdssaet.system[i]
               ELSE /\ arbejdssaet'.oploeft[i] = <<Delta, sekunder, 31557600>>
                    /\ arbejdssaet'.hvornaar[i] = <<gama.tg>>
                    /\ arbejdssaet'.system[i] = "DVR90"]_vars

\* A row recomputed at its own time: new height in, label and uplift untouched
C8_witness ==
    /\ pc = "opdater"
    /\ \E i \in 1..Len(foer.punkt) :
          /\ foer.hvornaar[i] = Tal(gama.tg)
          /\ foer.system[i] = "Jessen"
          /\ arbejdssaet.ny_kote[i] # NaN
          /\ arbejdssaet.system[i] = "Jessen"
          /\ arbejdssaet.oploeft[i] = NaN

\* C9: a running regn is a control computation exactly when the project holds
\* no Kontrolberegning sheet, and works on Punktoversigt then and on
\* Kontrolberegning otherwise; returning, a control computation writes
\* Kontrolberegning and a final one Endelig beregning, the other overview
\* sheets untouched; an invocation that ends in an error writes nothing; a
\* Kontrolberegning sheet, once there, stays.
C9_fanebladsprogression ==
    [][/\ (pc = "idle" /\ pc' = "fastholdt") =>
             /\ kontrol' = (ark["Kontrolberegning"] = NoSheet)
             /\ arbejdssaet'.punkt =
                   [k \in 1..Len(ark[IF kontrol' THEN "Punktoversigt"
                                     ELSE "Kontrolberegning"][1]) |->
                       ark[IF kontrol' THEN "Punktoversigt"
                           ELSE "Kontrolberegning"][1][k].punkt]
       /\ (pc # "idle" /\ pc' # "idle") =>
             (kontrol' = kontrol /\ kontrol = (ark["Kontrolberegning"] = NoSheet))
       /\ (KoerselSlutter /\ udfald' = "faerdig") =>
             /\ ark'["Punktoversigt"] = ark["Punktoversigt"]
             /\ IF kontrol
                THEN /\ ark["Kontrolberegning"] = NoSheet
                     /\ ark'["Kontrolberegning"] = <<Raekker(arbejdssaet)>>
                     /\ ark'["Endelig beregning"] = ark["Endelig beregning"]
                ELSE /\ ark'["Endelig beregning"] = <<Raekker(arbejdssaet)>>
                     /\ ark'["Kontrolberegning"] = ark["Kontrolberegning"]
       /\ (KoerselSlutter /\ udfald' # "faerdig") => ark' = ark
       /\ (ark["Kontrolberegning"] # NoSheet) => (ark'["Kontrolberegning"] # NoSheet)
      ]_vars

\* A control computation and a final computation have both returned
C9_witness ==
    /\ pc = "idle"
    /\ udfald = "faerdig"
    /\ ark["Kontrolberegning"] # NoSheet
    /\ ark["Endelig beregning"] # NoSheet

\* C10: spredning raises for every type that is not NUL, MTL or MGL in any
\* case of the letters, and for every negative distance with MTL or MGL.
C10_spredning_afviser ==
    spr_res.udfald # "ingen" =>
        /\ Upper(spr_arg.observationstype) \notin {"NUL", "MTL", "MGL"} =>
              spr_res.udfald = "ValueError"
        /\ (Upper(spr_arg.observationstype) \in {"MTL", "MGL"}
              /\ spr_arg.afstand_i_m < 0) =>
              spr_res.udfald = "ValueError"

\* Whether the fourteen columns of a working set are equally long
LigeLange(arb) == \A k \in Kolonner : Len(arb[k]) = Len(arb.punkt)

\* C11: a working set whose fourteen columns are equally long before the loop
\* has them equally long after every iteration, whatever the solver's triples
\* are, so the rows regn zips are as many as the point ids.
C11_kolonner_lige_lange ==
    (pc = "opdater" /\ LigeLange(foer)) =>
        /\ LigeLange(arbejdssaet)
        /\ Len(Raekker(arbejdssaet)) = Len(arbejdssaet.punkt)

====
